---- MODULE Spec2Model ----
(***************************************************************************)
(* A model of the task API: the Task table (app/models.py), the six        *)
(* request handlers of app/routes.py and the per-request database          *)
(* session of app/dependencies.py, over the SQLite engine app/database.py  *)
(* configures.                                                             *)
(*                                                                         *)
(* Strings are sequences of character codes (ASCII), so that lengths,      *)
(* lower-casing and LIKE patterns are computed and not assumed.  JSON null *)
(* / Python None is Null for strings and NullDT for datetimes.  A datetime *)
(* is [t, aware]: an instant and whether it carries a UTC offset.          *)
(***************************************************************************)
EXTENDS Integers, Sequences, FiniteSets, TLC

VARIABLES
    table,      \* the rows of table "task": a set of Task records
    last,       \* the request just answered (operation, inputs, response),
                \* NoResponse once the response has been sent
    issued,     \* history: every id a create_task response has returned
    born,       \* history: the last create (body and response) while its row
                \* has not been replaced, patched or deleted since
    sess        \* the open sessions of requests in flight (interleaved runs)

vars == <<table, last, issued, born, sess>>

-----------------------------------------------------------------------------
(* Bounds of the model *)

\* create_task is not taken once SQLite would hand out an id above MaxId
MaxId == 2

-----------------------------------------------------------------------------
(* Program constants *)

TitleMaxLength == 120
DescriptionMaxLength == 255
PatchTitleMaxLength == 120
PatchDescriptionMaxLength == 255
QueryTitleMaxLength == 120
DefaultLimit == 20
HTTP_201_CREATED == 201
HTTP_204_NO_CONTENT == 204
HTTP_404_NOT_FOUND == 404

\* FastAPI's defaults: a handler that returns, a request that fails
\* validation, an exception that is not an HTTPException
StatusOk == 200
StatusUnprocessable == 422
StatusServerError == 500

-----------------------------------------------------------------------------
(* Values *)

Null == <<-1>>
NullDT == [t |-> -1, aware |-> FALSE]

Percent == 37
Underscore == 95

Pad(n, c) == [i \in 1..n |-> c]

\* "Buy milk", "Walk dog", "2%"
BuyMilk == <<66, 117, 121, 32, 109, 105, 108, 107>>
WalkDog == <<87, 97, 108, 107, 32, 100, 111, 103>>
TwoPercent == <<50, 37>>
Title120 == Pad(120, 120)
Title121 == Pad(121, 120)
Desc256 == Pad(256, 120)

DataFields == {"title", "description", "completed", "created_at"}

\* A request body as parsed from JSON: `set` holds the keys present in the
\* body, the other fields hold placeholders
Raw(s, ti, de, co, ca) ==
    [set |-> s, title |-> ti, description |-> de, completed |-> co, created_at |-> ca]

NoBody == Raw({}, Null, Null, FALSE, NullDT)
NoQuery == [offset |-> 0, limit |-> 0, title |-> <<>>]

\* datetime_now(): the clock's readings, timezone-aware (UTC)
Clock == {[t |-> 1, aware |-> TRUE]}
\* a created_at a client sends
ClientDT == [t |-> 2, aware |-> TRUE]

-----------------------------------------------------------------------------
(* app/models.py: the request models and their validation *)

\* TaskCreate (BaseTask): title required, a str of at most 120 characters;
\* description None or a str of at most 255; completed a bool; created_at a
\* datetime
ValidTaskCreate(raw) ==
    /\ "title" \in raw.set
    /\ raw.title # Null
    /\ Len(raw.title) <= TitleMaxLength
    /\ "description" \in raw.set /\ raw.description # Null
          => Len(raw.description) <= DescriptionMaxLength
    /\ "created_at" \in raw.set => raw.created_at # NullDT

\* The TaskCreate instance: the fields not in the body take their defaults
TaskCreateModel(raw, now) ==
    [set |-> raw.set,
     title |-> raw.title,
     description |-> IF "description" \in raw.set THEN raw.description ELSE Null,
     completed |-> IF "completed" \in raw.set THEN raw.completed ELSE FALSE,
     created_at |-> IF "created_at" \in raw.set THEN raw.created_at ELSE now]

\* TaskPatch: every field optional; title and description may be None
ValidTaskPatch(raw) ==
    /\ "title" \in raw.set /\ raw.title # Null
          => Len(raw.title) <= PatchTitleMaxLength
    /\ "description" \in raw.set /\ raw.description # Null
          => Len(raw.description) <= PatchDescriptionMaxLength

TaskPatchModel(raw) ==
    [set |-> raw.set,
     title |-> IF "title" \in raw.set THEN raw.title ELSE Null,
     description |-> IF "description" \in raw.set THEN raw.description ELSE Null,
     completed |-> IF "completed" \in raw.set THEN raw.completed ELSE FALSE,
     created_at |-> IF "created_at" \in raw.set THEN raw.created_at ELSE NullDT]

\* A faulty model_dump: exclude_unset left out, the defaults are dumped too
model_dump_all(m) == [f \in DataFields |-> m[f]]

\* model_dump(exclude_unset=True): the fields the request set, no defaults
model_dump(m) == [f \in m.set |-> m[f]]

\* sqlmodel_update(data): setattr for every key of data that is a field
sqlmodel_update(obj, data) ==
    [f \in DOMAIN obj |-> IF f \in DOMAIN data THEN data[f] ELSE obj[f]]

-----------------------------------------------------------------------------
(* The storage layer: table "task" in SQLite, through the ORM session *)

\* Columns title, completed and created_at are NOT NULL (not Optional in
\* BaseTask); description is nullable
NotNullColumns == {"title", "completed", "created_at"}

IsNullValue(f, v) ==
    IF f = "created_at" THEN v = NullDT
    ELSE IF f = "completed" THEN FALSE
    ELSE v = Null

\* What a column holds after a value is written: SQLite's DateTime keeps no
\* UTC offset, the other types are kept as they are
StoreValue(f, v) ==
    IF f = "created_at" THEN [t |-> v.t, aware |-> FALSE] ELSE v

Ids(t) == {r.id : r \in t}

MaxOf(S) == CHOOSE m \in S : \A x \in S : x <= m

\* A faulty NextId: the next id taken from the number of rows
NextId_Count(t) == Cardinality(t) + 1

\* id is INTEGER PRIMARY KEY without AUTOINCREMENT: an INSERT with no id
\* takes one more than the largest id in the table
NextId(t) == IF t = {} THEN 1 ELSE MaxOf(Ids(t)) + 1

\* Session.get(Task, task_id): the rows with that primary key
Get(t, task_id) == {r \in t : r.id = task_id}

\* Task.model_validate(task_body), add, commit: the INSERT
Insert(t, m) ==
    t \cup {[id |-> NextId(t),
             title |-> StoreValue("title", m.title),
             description |-> StoreValue("description", m.description),
             completed |-> StoreValue("completed", m.completed),
             created_at |-> StoreValue("created_at", m.created_at)]}

\* add, commit of a loaded object after sqlmodel_update: the flush writes the
\* attributes whose value differs from the loaded one, in one UPDATE by
\* primary key.  No attribute changed: no statement.  No row matched:
\* StaleDataError.  NULL into a NOT NULL column: IntegrityError.
CommitUpdate(t, obj, data) ==
    LET new == sqlmodel_update(obj, data)
        changed == {f \in DataFields : new[f] # obj[f]}
    IN  IF changed = {} THEN [ok |-> TRUE, table |-> t]
        ELSE IF Get(t, obj.id) = {} THEN [ok |-> FALSE, table |-> t]
        ELSE IF \E f \in changed \cap NotNullColumns : IsNullValue(f, new[f])
             THEN [ok |-> FALSE, table |-> t]
        ELSE [ok |-> TRUE,
              table |-> {IF r.id = obj.id
                         THEN [g \in DOMAIN r |->
                                 IF g \in changed THEN StoreValue(g, new[g]) ELSE r[g]]
                         ELSE r : r \in t}]

\* A faulty CommitDelete: the delete is never committed
CommitDelete_Lost(t, obj) == t

\* delete, commit: DELETE by primary key (no row matched is only a warning)
CommitDelete(t, obj) == {r \in t : r.id # obj.id}

-----------------------------------------------------------------------------
(* list_tasks: the LIKE filter and the pagination *)

Lower(c) == IF c \in 65..90 THEN c + 32 ELSE c
LowerStr(s) == [i \in 1..Len(s) |-> Lower(s[i])]

\* SQLite's LIKE: % matches any run of characters, _ any one character.
\* LikeFrom: does p from its i-th character on match s from position pos on
RECURSIVE LikeFrom(_, _, _, _)
LikeFrom(p, i, s, pos) ==
    IF i > Len(p) THEN pos = Len(s) + 1
    ELSE IF p[i] = Percent
         THEN \E q \in pos..(Len(s) + 1) : LikeFrom(p, i + 1, s, q)
    ELSE /\ pos <= Len(s)
         /\ (p[i] = Underscore \/ p[i] = s[pos])
         /\ LikeFrom(p, i + 1, s, pos + 1)

Like(p, s) == LikeFrom(p, 1, s, 1)

\* col(Task.title).ilike(f"%{title}%"): lower(title) LIKE lower(pattern)
ILike(s, title) ==
    Like(LowerStr(<<Percent>> \o title \o <<Percent>>), LowerStr(s))

\* The rows of a scan of the table: by rowid, which is the id
RECURSIVE ById(_)
ById(S) ==
    IF S = {} THEN <<>>
    ELSE LET r == CHOOSE x \in S : \A y \in S : x.id <= y.id
         IN  <<r>> \o ById(S \ {r})

MinOf(a, b) == IF a <= b THEN a ELSE b

\* select(Task).offset(offset).limit(limit), where(...) when title is given
Exec(t, offset, limit, title) ==
    LET rows == IF title # <<>> THEN {r \in t : ILike(r.title, title)} ELSE t
        scan == ById(rows)
    IN  SubSeq(scan, offset + 1, MinOf(offset + limit, Len(scan)))

-----------------------------------------------------------------------------
(* app/routes.py: the handlers, as the response and the table they leave *)

Response(st, rows, t) == [status |-> st, resp |-> rows, table |-> t]

\* A faulty list_tasks: the empty list is returned as it is
list_tasks_empty_ok(t, offset, limit, title) ==
    IF offset < 0 \/ limit < 0 \/ Len(title) > QueryTitleMaxLength
    THEN Response(StatusUnprocessable, <<>>, t)
    ELSE Response(StatusOk, Exec(t, offset, limit, title), t)

list_tasks(t, offset, limit, title) ==
    IF offset < 0 \/ limit < 0 \/ Len(title) > QueryTitleMaxLength
    THEN Response(StatusUnprocessable, <<>>, t)
    ELSE LET task_list == Exec(t, offset, limit, title)
         IN  IF task_list = <<>>
             THEN Response(HTTP_404_NOT_FOUND, <<>>, t)
             ELSE Response(StatusOk, task_list, t)

task_details(t, task_id) ==
    IF task_id < 0 THEN Response(StatusUnprocessable, <<>>, t)
    ELSE LET task_db == Get(t, task_id)
         IN  IF task_db = {}
             THEN Response(HTTP_404_NOT_FOUND, <<>>, t)
             ELSE Response(StatusOk, <<CHOOSE r \in task_db : TRUE>>, t)

\* A faulty create_task: the object is returned as built, not as stored
create_task_unrefreshed(t, raw, now) ==
    IF ~ValidTaskCreate(raw) THEN Response(StatusUnprocessable, <<>>, t)
    ELSE LET m == TaskCreateModel(raw, now)
         IN  Response(HTTP_201_CREATED,
                      <<[id |-> NextId(t), title |-> m.title,
                         description |-> m.description, completed |-> m.completed,
                         created_at |-> m.created_at]>>,
                      Insert(t, m))

create_task(t, raw, now) ==
    IF ~ValidTaskCreate(raw) THEN Response(StatusUnprocessable, <<>>, t)
    ELSE LET after == Insert(t, TaskCreateModel(raw, now))
             \* refresh: the row read back by the id the INSERT took
             db_task == Get(after, NextId(t))
         IN  Response(HTTP_201_CREATED, ById(db_task), after)

\* commit and refresh of update_task and patch_task
SaveAndRefresh(t, obj, data) ==
    LET c == CommitUpdate(t, obj, data)
    IN  IF ~c.ok \/ Get(c.table, obj.id) = {}
        THEN Response(StatusServerError, <<>>, c.table)
        ELSE Response(StatusOk, ById(Get(c.table, obj.id)), c.table)

\* A faulty update_task: a task that is not stored is created
update_task_upsert(t, task_id, raw, now) ==
    IF task_id < 1 \/ ~ValidTaskCreate(raw)
    THEN Response(StatusUnprocessable, <<>>, t)
    ELSE LET task_db == Get(t, task_id)
         IN  IF task_db = {}
             THEN Response(StatusOk, <<>>, Insert(t, TaskCreateModel(raw, now)))
             ELSE SaveAndRefresh(t, CHOOSE r \in task_db : TRUE,
                                 model_dump(TaskCreateModel(raw, now)))

update_task(t, task_id, raw, now) ==
    IF task_id < 1 \/ ~ValidTaskCreate(raw)
    THEN Response(StatusUnprocessable, <<>>, t)
    ELSE LET task_db == Get(t, task_id)
         IN  IF task_db = {}
             THEN Response(HTTP_404_NOT_FOUND, <<>>, t)
             ELSE SaveAndRefresh(t, CHOOSE r \in task_db : TRUE,
                                 model_dump(TaskCreateModel(raw, now)))

patch_task(t, task_id, raw) ==
    IF task_id < 0 \/ ~ValidTaskPatch(raw)
    THEN Response(StatusUnprocessable, <<>>, t)
    ELSE LET task_db == Get(t, task_id)
         IN  IF task_db = {}
             THEN Response(HTTP_404_NOT_FOUND, <<>>, t)
             ELSE SaveAndRefresh(t, CHOOSE r \in task_db : TRUE,
                                 model_dump(TaskPatchModel(raw)))

delete_task(t, task_id) ==
    LET task_db == Get(t, task_id)
    IN  IF task_db = {}
        THEN Response(HTTP_404_NOT_FOUND, <<>>, t)
        ELSE Response(HTTP_204_NO_CONTENT, <<>>,
                      CommitDelete(t, CHOOSE r \in task_db : TRUE))

-----------------------------------------------------------------------------
(* The requests the clients send *)

PathIds == -1..MaxId

\* Bodies of POST /task/ and PUT /task/{id}; the last four fail validation
CreateBodies ==
    {Raw({"title"}, BuyMilk, Null, FALSE, NullDT),
     Raw({"title", "description", "completed"}, Title120, TwoPercent, TRUE, NullDT),
     Raw({"title", "description"}, BuyMilk, Null, FALSE, NullDT),
     Raw({"title", "completed"}, Title120, Null, FALSE, NullDT),
     Raw({"title", "created_at"}, BuyMilk, Null, FALSE, ClientDT),
     Raw({"title"}, Title121, Null, FALSE, NullDT),
     Raw({"title", "description"}, BuyMilk, Desc256, FALSE, NullDT),
     Raw({"title"}, Null, Null, FALSE, NullDT),
     Raw({"completed"}, Null, Null, TRUE, NullDT)}

\* Bodies of PATCH /task/{id}; the last two fail validation
PatchBodies ==
    {Raw({}, Null, Null, FALSE, NullDT),
     Raw({"completed"}, Null, Null, TRUE, NullDT),
     Raw({"completed"}, Null, Null, FALSE, NullDT),
     Raw({"title"}, Title120, Null, FALSE, NullDT),
     Raw({"title", "completed"}, BuyMilk, Null, TRUE, NullDT),
     Raw({"description"}, Null, TwoPercent, FALSE, NullDT),
     Raw({"description"}, Null, Null, FALSE, NullDT),
     Raw({"created_at"}, Null, Null, FALSE, ClientDT),
     Raw({"title"}, Null, Null, FALSE, NullDT),
     Raw({"created_at"}, Null, Null, FALSE, NullDT),
     Raw({"title"}, Title121, Null, FALSE, NullDT),
     Raw({"description"}, Null, Desc256, FALSE, NullDT)}

\* "milk", "MILK", "m_lk", "%", "x", "cat"; the empty title is no filter
Filters ==
    {<<>>,
     <<109, 105, 108, 107>>,
     <<77, 73, 76, 75>>,
     <<109, 95, 108, 107>>,
     <<Percent>>,
     <<120>>,
     <<99, 97, 116>>}

\* The queries of GET /task/; the last three fail validation
Queries ==
    [offset : {0, 1}, limit : {0, 1, DefaultLimit}, title : Filters]
        \cup {[offset |-> -1, limit |-> DefaultLimit, title |-> <<>>],
              [offset |-> 0, limit |-> -1, title |-> <<>>],
              [offset |-> 0, limit |-> DefaultLimit, title |-> Title121]}

\* The queries without a title filter
PlainQueries == {q \in Queries : q.title = <<>>}

-----------------------------------------------------------------------------
(* The state machine: one client, requests answered one at a time *)

Answered(op, task_id, raw, query, r) ==
    [op |-> op, id |-> task_id, body |-> raw, query |-> query,
     status |-> r.status, resp |-> r.resp, raced |-> <<>>]

NoResponse ==
    [op |-> "none", id |-> 0, body |-> NoBody, query |-> NoQuery,
     status |-> 0, resp |-> <<>>, raced |-> <<>>]

NoBorn == [id |-> 0, body |-> NoBody, resp |-> <<>>]

Sessions == {"s1", "s2"}
Idle == [pc |-> "idle", op |-> "none", id |-> 0, body |-> NoBody, obj |-> <<>>,
         raced |-> <<>>]

Init ==
    /\ table = {}
    /\ last = NoResponse
    /\ issued = {}
    /\ born = NoBorn
    /\ sess = [s \in Sessions |-> Idle]

\* The history of a replace, patch or delete that succeeded on the born row
Touched(task_id, r) ==
    IF task_id = born.id /\ r.status \in {StatusOk, HTTP_204_NO_CONTENT}
    THEN NoBorn ELSE born

\* The client sends its next request when the last one is answered
Ready == last = NoResponse

ListTasks(queries) ==
    \E q \in queries :
        LET r == list_tasks(table, q.offset, q.limit, q.title)
        IN  /\ Ready
            /\ table' = r.table
            /\ last' = Answered("list", 0, NoBody, q, r)
            /\ UNCHANGED <<issued, born, sess>>

TaskDetails ==
    \E task_id \in PathIds :
        LET r == task_details(table, task_id)
        IN  /\ Ready
            /\ table' = r.table
            /\ last' = Answered("get", task_id, NoBody, NoQuery, r)
            /\ UNCHANGED <<issued, born, sess>>

CreateTask(bodies) ==
    \E raw \in bodies, now \in Clock :
        LET r == create_task(table, raw, now)
        IN  /\ Ready
            /\ NextId(table) <= MaxId
            /\ table' = r.table
            /\ last' = Answered("create", 0, raw, NoQuery, r)
            /\ issued' = IF r.status = HTTP_201_CREATED
                         THEN issued \cup {r.resp[1].id} ELSE issued
            /\ born' = IF r.status = HTTP_201_CREATED
                       THEN [id |-> r.resp[1].id, body |-> raw, resp |-> r.resp]
                       ELSE born
            /\ UNCHANGED sess

UpdateTask ==
    \E task_id \in PathIds, raw \in CreateBodies, now \in Clock :
        LET r == update_task(table, task_id, raw, now)
        IN  /\ Ready
            /\ table' = r.table
            /\ last' = Answered("replace", task_id, raw, NoQuery, r)
            /\ born' = Touched(task_id, r)
            /\ UNCHANGED <<issued, sess>>

PatchTask ==
    \E task_id \in PathIds, raw \in PatchBodies :
        LET r == patch_task(table, task_id, raw)
        IN  /\ Ready
            /\ table' = r.table
            /\ last' = Answered("patch", task_id, raw, NoQuery, r)
            /\ born' = Touched(task_id, r)
            /\ UNCHANGED <<issued, sess>>

DeleteTask ==
    \E task_id \in PathIds :
        LET r == delete_task(table, task_id)
        IN  /\ Ready
            /\ table' = r.table
            /\ last' = Answered("delete", task_id, NoBody, NoQuery, r)
            /\ born' = Touched(task_id, r)
            /\ UNCHANGED <<issued, sess>>

\* The transport has sent the response: the request is over
Respond ==
    /\ last # NoResponse
    /\ last' = NoResponse
    /\ UNCHANGED <<table, issued, born, sess>>

Next ==
    \/ ListTasks(PlainQueries)
    \/ TaskDetails
    \/ CreateTask(CreateBodies)
    \/ UpdateTask
    \/ PatchTask
    \/ DeleteTask
    \/ Respond

Spec == Init /\ [][Next]_vars

\* The same client with the title filters of list_tasks, over the tables that
\* creates and deletes build
ListCreateBodies ==
    {Raw({"title"}, BuyMilk, Null, FALSE, NullDT),
     Raw({"title"}, WalkDog, Null, FALSE, NullDT),
     Raw({"title"}, Title120, Null, FALSE, NullDT)}

NextList ==
    \/ ListTasks(Queries)
    \/ CreateTask(ListCreateBodies)
    \/ DeleteTask
    \/ Respond

SpecList == Init /\ [][NextList]_vars

-----------------------------------------------------------------------------
(* Requests in flight together.  get_database_session gives each request   *)
(* its own Session; the handlers run on worker threads, so a second        *)
(* request may load its task between the Session.get and the commit of the *)
(* first.  A session holds what its request loaded until it commits.       *)

RaceCreateBodies ==
    {Raw({"title"}, BuyMilk, Null, FALSE, NullDT)}

RacePatchBodies ==
    {Raw({"title"}, Title120, Null, FALSE, NullDT),
     Raw({"title", "completed"}, BuyMilk, Null, TRUE, NullDT)}

RaceBodies(op) ==
    IF op = "replace" THEN RaceCreateBodies
    ELSE IF op = "patch" THEN RacePatchBodies
    ELSE {NoBody}

\* History of a loaded session passed by more than one commit, or by a delete
Spoiled == <<NoBody, NoBody>>

\* The handler up to its Session.get: the response when it ends there
Rejected(op, t, task_id, raw, now) ==
    LET r == IF op = "replace" THEN update_task(t, task_id, raw, now)
             ELSE IF op = "patch" THEN patch_task(t, task_id, raw)
             ELSE delete_task(t, task_id)
    IN  IF r.status \in {StatusUnprocessable, HTTP_404_NOT_FOUND}
        THEN <<r>> ELSE <<>>

\* The handler from its sqlmodel_update (or Session.delete) on, with the
\* object its session loaded
Finish(op, t, obj, raw, now) ==
    IF op = "replace" THEN SaveAndRefresh(t, obj, model_dump(TaskCreateModel(raw, now)))
    ELSE IF op = "patch" THEN SaveAndRefresh(t, obj, model_dump(TaskPatchModel(raw)))
    ELSE Response(HTTP_204_NO_CONTENT, <<>>, CommitDelete(t, obj))

\* A request arrives: validation, Session.get, 404 when the task is absent
Begin ==
    \E s \in Sessions, op \in {"replace", "patch", "delete"}, task_id \in PathIds,
       now \in Clock :
        \E raw \in RaceBodies(op) :
            LET rej == Rejected(op, table, task_id, raw, now)
            IN  /\ sess[s].pc = "idle"
                /\ Ready
                /\ IF rej # <<>>
                   THEN /\ last' = Answered(op, task_id, raw, NoQuery, rej[1])
                        /\ UNCHANGED sess
                   ELSE /\ sess' = [sess EXCEPT ![s] =
                                      [pc |-> "loaded", op |-> op, id |-> task_id,
                                       body |-> raw,
                                       obj |-> ById(Get(table, task_id)),
                                       raced |-> <<>>]]
                        /\ UNCHANGED last
                /\ UNCHANGED <<table, issued, born>>

\* The request's session flushes and commits; a replace or patch that
\* commits is noted in the sessions that loaded the same task before it
Commit ==
    \E s \in Sessions, now \in Clock :
        LET q == sess[s]
            r == Finish(q.op, table, q.obj[1], q.body, now)
            wrote == q.op \in {"replace", "patch"} /\ r.status = StatusOk
            \* what the commit adds to the history of a session that loaded
            \* the same task: the body written, or Spoiled after anything more
            note(o) == IF wrote /\ sess[o].raced = <<>> THEN <<q.body>> ELSE Spoiled
        IN  /\ q.pc = "loaded"
            /\ Ready
            /\ table' = r.table
            /\ last' = [Answered(q.op, q.id, q.body, NoQuery, r)
                           EXCEPT !.raced = q.raced]
            /\ sess' = [o \in Sessions |->
                          IF o = s THEN Idle
                          ELSE IF sess[o].pc = "loaded" /\ sess[o].id = q.id
                               THEN [sess[o] EXCEPT !.raced = note(o)]
                               ELSE sess[o]]
            /\ born' = Touched(q.id, r)
            /\ UNCHANGED issued

NextConc ==
    \/ CreateTask(RaceCreateBodies)
    \/ Begin
    \/ Commit
    \/ Respond

SpecConc == Init /\ [][NextConc]_vars

-----------------------------------------------------------------------------
(* The claims *)

\* A request was answered in this step
AnsweredNow(ops) == last = NoResponse /\ last'.op \in ops

\* The stored row a body describes, merged on row r field by field
Merged(r, body) ==
    [f \in DOMAIN r |->
        IF f \in body.set THEN StoreValue(f, body[f]) ELSE r[f]]

UniqueIds == \A r1 \in table, r2 \in table : r1.id = r2.id => r1 = r2

\* C1 as claimed: no create returns an id that an earlier create returned,
\* ids of deleted tasks included
C1_NeverReissued ==
    [][AnsweredNow({"create"}) /\ last'.status = HTTP_201_CREATED
          => last'.resp[1].id \notin issued]_vars

\* C1 as amended: the id a create returns is unique among the tasks stored at
\* the time: it is larger than the id of every stored task, the create adds
\* exactly that row, and no two stored tasks share an id.  The id of a
\* deleted task may be returned again.
C1_UniqueAmongStored ==
    [][/\ UniqueIds'
       /\ AnsweredNow({"create"}) /\ last'.status = HTTP_201_CREATED
             => /\ Len(last'.resp) = 1
                /\ \A r \in table : r.id < last'.resp[1].id
                /\ table' = table \cup {last'.resp[1]}
                /\ Cardinality(table') = Cardinality(table) + 1]_vars

C1_Witness ==
    /\ last.op = "create"
    /\ last.status = HTTP_201_CREATED
    /\ last.resp[1].id = 2
    /\ Cardinality(table) = 2

\* C2 as claimed: a replace never alters the stored created_at, and a patch
\* alters it only when its body contains created_at
C2_ReplaceKeepsCreatedAt ==
    [][\A r \in table, r2 \in table' :
          r.id = r2.id /\ r2.created_at # r.created_at
             => /\ last'.op = "patch"
                /\ last'.id = r.id
                /\ "created_at" \in last'.body.set]_vars

\* C2 as amended: the stored created_at of a task is altered only by a
\* replace or a patch of that task whose body contains created_at
C2_CreatedAtOnlyWhenSent ==
    [][\A r \in table, r2 \in table' :
          r.id = r2.id /\ r2.created_at # r.created_at
             => /\ AnsweredNow({"replace", "patch"})
                /\ last'.id = r.id
                /\ last'.status = StatusOk
                /\ "created_at" \in last'.body.set
                /\ r2.created_at = StoreValue("created_at", last'.body.created_at)]_vars

\* a replace without created_at answered on a task whose created_at a client
\* had set: the stored value is still the client's
C2_Witness ==
    /\ last.op = "replace"
    /\ last.status = StatusOk
    /\ "created_at" \notin last.body.set
    /\ last.resp[1].created_at = StoreValue("created_at", ClientDT)
    /\ last.resp[1] \in table

\* C3 as claimed: a patch or replace that passes validation, on a stored
\* task, leaves the table with that row merged (the fields of the body
\* overwritten with the body's values, the others and the id kept) and every
\* other row as it was
C3_SparseMerge ==
    [][(/\ AnsweredNow({"replace", "patch"})
        /\ last'.status # StatusUnprocessable
        /\ Get(table, last'.id) # {})
          => \A r \in Get(table, last'.id) :
                table' = (table \ {r}) \cup {Merged(r, last'.body)}]_vars

\* The fields of a create body as the claim expects them stored
AsPayload(row, body) ==
    /\ row.title = body.title
    /\ row.description = (IF "description" \in body.set THEN body.description ELSE Null)
    /\ row.completed = (IF "completed" \in body.set THEN body.completed ELSE FALSE)

\* C4: a create answers with the title, description and completed of its
\* body (null and false when omitted), and a later get of the returned id,
\* with no replace, patch or delete of that id in between, answers 200 with
\* the same title, description and completed and with the id and created_at
\* the create returned
C4_RoundTrip ==
    /\ last.op = "create" /\ last.status = HTTP_201_CREATED
          => /\ Len(last.resp) = 1
             /\ AsPayload(last.resp[1], last.body)
             /\ born = [id |-> last.resp[1].id, body |-> last.body, resp |-> last.resp]
    /\ last.op = "get" /\ born # NoBorn /\ last.id = born.id
          => /\ last.status = StatusOk
             /\ Len(last.resp) = 1
             /\ AsPayload(last.resp[1], born.body)
             /\ last.resp[1].id = born.resp[1].id
             /\ last.resp[1].created_at = born.resp[1].created_at

C4_Witness ==
    /\ last.op = "get"
    /\ born # NoBorn
    /\ last.id = born.id
    /\ born.body.set = {"title", "description", "completed"}
    /\ Cardinality(table) = 2

\* C5: a delete of a stored task answers 204 and removes exactly that row;
\* from then on the id is absent until a create stores a task under it, and
\* every get, replace, patch or delete of it that passes validation answers
\* 404 and changes nothing
C5_DeleteLifecycle ==
    [][/\ AnsweredNow({"delete"}) /\ Get(table, last'.id) # {}
             => /\ last'.status = HTTP_204_NO_CONTENT
                /\ table' = table \ Get(table, last'.id)
                /\ last'.id \in issued \ Ids(table')
       /\ \A i \in issued \ Ids(table) :
             /\ i \in Ids(table')
                   => AnsweredNow({"create"}) /\ last'.resp[1].id = i
             /\ (/\ AnsweredNow({"get", "replace", "patch", "delete"})
                 /\ last'.id = i
                 /\ last'.status # StatusUnprocessable)
                   => last'.status = HTTP_404_NOT_FOUND /\ table' = table]_vars

\* the same DELETE a second time
C5_Witness ==
    /\ last.op = "delete"
    /\ last.status = HTTP_404_NOT_FOUND
    /\ last.id \in issued
    /\ table # {}

\* s contains sub, letter case ignored
Contains(s, sub) ==
    \E i \in 0..(Len(s) - Len(sub)) :
        \A j \in 1..Len(sub) : Lower(s[i + j]) = Lower(sub[j])

\* C6 as claimed: a list that succeeds returns the tasks whose title
\* contains the filter as a case-insensitive substring (all when there is no
\* filter), the first `offset` of them skipped and at most `limit` returned
C6_FilterAndPagination ==
    last.op = "list" /\ last.status = StatusOk
       => LET q == last.query
              matching == ById({r \in table : Contains(r.title, q.title)})
          IN  last.resp = SubSeq(matching, q.offset + 1,
                                 MinOf(q.offset + q.limit, Len(matching)))

\* C7: a list that passes validation answers 404 exactly when it selects
\* nothing (no row kept by the filter, offset at or past their number, or
\* limit 0), answers 200 with a sequence that is not empty otherwise, and
\* leaves the table as it was
C7_EmptyResult ==
    [][AnsweredNow({"list"}) /\ last'.status # StatusUnprocessable
          => LET q == last'.query
                 kept == {r \in table : q.title = <<>> \/ ILike(r.title, q.title)}
                 empty == kept = {} \/ q.offset >= Cardinality(kept) \/ q.limit = 0
             IN  /\ table' = table
                 /\ empty => last'.status = HTTP_404_NOT_FOUND /\ last'.resp = <<>>
                 /\ ~empty => last'.status = StatusOk /\ last'.resp # <<>>]_vars

\* a filter that matches no stored task
C7_Witness ==
    /\ last.op = "list"
    /\ last.status = HTTP_404_NOT_FOUND
    /\ last.query.title # <<>>
    /\ last.query.offset = 0
    /\ last.query.limit > 0
    /\ table # {}

\* C8: a get, replace, patch or delete that passes validation answers 404
\* when no task is stored under its id, and then stores nothing and changes
\* no task; when a task is stored under its id it never answers 404
C8_NotFound ==
    [][AnsweredNow({"get", "replace", "patch", "delete"})
          => /\ Get(table, last'.id) = {} /\ last'.status # StatusUnprocessable
                   => last'.status = HTTP_404_NOT_FOUND /\ last'.resp = <<>>
             /\ Get(table, last'.id) = {} => table' = table
             /\ Get(table, last'.id) # {} => last'.status # HTTP_404_NOT_FOUND]_vars

C8_Witness ==
    /\ last.op \in {"replace", "patch"}
    /\ last.status = HTTP_404_NOT_FOUND
    /\ last.id \notin Ids(table)
    /\ table # {}

\* A body that would store a title that is no string of at most 120
\* characters, or a description that is neither null nor a string of at most
\* 255 characters
Violates(body) ==
    \/ "title" \in body.set
          /\ (body.title = Null \/ Len(body.title) > TitleMaxLength)
    \/ "description" \in body.set
          /\ body.description # Null
          /\ Len(body.description) > DescriptionMaxLength

\* C9 as claimed: every stored task has a title that is a string of at most
\* 120 characters and a description that is null or a string of at most 255
\* characters, and a create, replace or patch whose body violates this is
\* rejected by validation (422)
C9_ConstraintsByValidation ==
    /\ \A r \in table :
          /\ r.title # Null /\ Len(r.title) <= TitleMaxLength
          /\ r.description = Null \/ Len(r.description) <= DescriptionMaxLength
    /\ last.op \in {"create", "replace", "patch"} /\ Violates(last.body)
          => last.status = StatusUnprocessable

\* C10 as claimed: a replace or patch that commits after another replace or
\* patch of the same task, both having loaded the task before either
\* committed, succeeds, leaves one row under the id, and leaves every field
\* that both bodies set at the value of its own body
C10_LastCommitWins ==
    last.op \in {"replace", "patch"} /\ Len(last.raced) = 1
       => /\ last.status = StatusOk
          /\ Cardinality(Get(table, last.id)) = 1
          /\ \A r \in Get(table, last.id) :
                \A f \in last.body.set \cap last.raced[1].set :
                    r[f] = StoreValue(f, last.body[f])

====
